---------------------------- MODULE Spec2Model ----------------------------
(***************************************************************************)
(* A model of cams_radiation/cams_radiation.py: the CDSRequest model and   *)
(* its send_request method, the CSV response parser, the index             *)
(* normalisation, the PAR calculator and the aggregator.                   *)
(*                                                                         *)
(* Four specifications share the module, one per component:                *)
(*   SpecRequest  CDSRequest construction, field assignment, send_request  *)
(*   SpecPar      calculate_PAR and calculate_aggregated_par               *)
(*   SpecCsv      _read_csv_url_to_dataframe                               *)
(*   SpecIndex    observation_period_to_index                              *)
(*                                                                         *)
(* Text is a sequence of one-character strings.  Timestamps are seconds    *)
(* since a midnight.  The float columns of pandas are exact rationals      *)
(* [n, d] here (the float64 values are the nearest doubles to them).       *)
(***************************************************************************)
EXTENDS Integers, Sequences, FiniteSets, TLC

VARIABLES
    request,         \* the CDSRequest object the caller holds, or NoRequest
    ctor,            \* the last CDSRequest(...) call: its arguments and outcome
    send,            \* the frame of the running send_request call
    df_irradiation,  \* the table passed to calculate_PAR / calculate_aggregated_par
    par_call,        \* the last call of those two: arguments, locals, outcome
    response_text,   \* requests.get(url).text of _read_csv_url_to_dataframe
    csv_call,        \* the last _read_csv_url_to_dataframe call
    heap,            \* the tables of observation_period_to_index, by object id
    idx_call         \* the calls of observation_period_to_index

vars == <<request, ctor, send, df_irradiation, par_call, response_text,
          csv_call, heap, idx_call>>

None == "None"

(***************************************************************************)
(* CDSRequest                                                              *)
(***************************************************************************)

TimeSteps == {"1minute", "15minute", "1hour", "1day", "1month"}

OutputFormats == {"csv", "netcdf", "csv_expert"}

\* Values a caller may pass or assign that are outside the Literal types.
OtherTimeSteps == {"1week"}

OtherOutputFormats == {"json"}

OutputFiles == {None, "out.csv"}

CAMS_SOLAR_RADIATION_TIMESERIES == "cams-solar-radiation-timeseries"

NoRequest == [kind |-> "NoRequest"]

NoCall == [kind |-> "NoCall"]

IdleFrame == [pc |-> "idle"]

\* The Literal[...] annotations of the two fields.
LiteralsOk(time_step, output_format) ==
    time_step \in TimeSteps /\ output_format \in OutputFormats

check_csv_expert_timestep_Inverted(time_step, output_format) ==
    ~(output_format = "csv_expert" /\ time_step = "1minute")

\* TRUE when the validator returns self, FALSE when it raises ValueError.
check_csv_expert_timestep(time_step, output_format) ==
    ~(output_format = "csv_expert" /\ ~(time_step = "1minute"))

\* CDSRequest(time_step=..., output_format=..., cdsapi_kwargs=...): pydantic
\* checks the field types, then runs the mode="after" validator.
Construct(time_step, output_format, kwargs) ==
    /\ send.pc = "idle"
    /\ IF /\ LiteralsOk(time_step, output_format)
          /\ check_csv_expert_timestep(time_step, output_format)
       THEN /\ request' = [kind |-> "CDSRequest", time_step |-> time_step,
                           output_format |-> output_format,
                           cdsapi_kwargs |-> kwargs]
            /\ ctor' = [kind |-> "Call", time_step |-> time_step,
                        output_format |-> output_format, outcome |-> "ok"]
       ELSE /\ request' = NoRequest
            /\ ctor' = [kind |-> "Call", time_step |-> time_step,
                        output_format |-> output_format,
                        outcome |-> "ValidationError"]
    /\ UNCHANGED <<send, df_irradiation, par_call, response_text, csv_call,
                   heap, idx_call>>

\* request.time_step = v: the class sets no model_config, so the model is
\* neither frozen nor validated on assignment, and the value is stored as is.
SetTimeStep(v) ==
    /\ request # NoRequest
    /\ send.pc = "idle"
    /\ request' = [request EXCEPT !.time_step = v]
    /\ UNCHANGED <<ctor, send, df_irradiation, par_call, response_text,
                   csv_call, heap, idx_call>>

\* request.output_format = v, likewise.
SetOutputFormat(v) ==
    /\ request # NoRequest
    /\ send.pc = "idle"
    /\ request' = [request EXCEPT !.output_format = v]
    /\ UNCHANGED <<ctor, send, df_irradiation, par_call, response_text,
                   csv_call, heap, idx_call>>

\* The params dict of send_request (the location, altitude and date entries
\* copy string fields that no branch reads).
Params(self) ==
    [sky_type |-> "observed_cloud", time_step |-> self.time_step,
     time_reference |-> "universal_time", format |-> self.output_format]

\* send_request up to the retrieve call: the client and the payload.
SendRequest(output_file) ==
    /\ request # NoRequest
    /\ send.pc = "idle"
    /\ send' = [pc |-> "retrieve",
                output_file |-> output_file,
                client |-> IF request.cdsapi_kwargs THEN "Client(**kwargs)"
                                                    ELSE "Client()",
                params |-> Params(request),
                retrieves |-> 0, gets |-> 0, location |-> None,
                parsed_as |-> None, result |-> None, error |-> None]
    /\ UNCHANGED <<request, ctor, df_irradiation, par_call, response_text,
                   csv_call, heap, idx_call>>

\* A buggy variant: a failed retrieval is submitted again.
RetrieveWithRetry ==
    /\ send.pc = "retrieve"
    /\ send.retrieves < 2
    /\ \/ send' = [send EXCEPT !.retrieves = @ + 1, !.pc = "retrieved",
                               !.location = "result.location"]
       \/ send' = [send EXCEPT !.retrieves = @ + 1]
    /\ UNCHANGED <<request, ctor, df_irradiation, par_call, response_text,
                   csv_call, heap, idx_call>>

\* result = c.retrieve(name, params, output_file): the archive client answers
\* or raises; the exception leaves send_request as it is.
Retrieve ==
    /\ send.pc = "retrieve"
    /\ \/ send' = [send EXCEPT !.retrieves = @ + 1, !.pc = "retrieved",
                               !.location = "result.location"]
       \/ send' = [send EXCEPT !.retrieves = @ + 1, !.pc = "raised",
                               !.error = "retrieve error"]
    /\ UNCHANGED <<request, ctor, df_irradiation, par_call, response_text,
                   csv_call, heap, idx_call>>

\* not output_file, format csv or csv_expert: _read_csv_url_to_dataframe.
ReadCsv ==
    /\ send.pc = "retrieved"
    /\ send.output_file = None
    /\ request.output_format \in {"csv", "csv_expert"}
    /\ \/ send' = [send EXCEPT !.gets = @ + 1, !.pc = "returned",
                               !.parsed_as = "delimited text",
                               !.result = "DataFrame"]
       \/ send' = [send EXCEPT !.gets = @ + 1, !.pc = "raised",
                               !.error = "get or parse error"]
    /\ UNCHANGED <<request, ctor, df_irradiation, par_call, response_text,
                   csv_call, heap, idx_call>>

\* not output_file, format netcdf: _read_netcdf_url_to_dataset.
ReadNetcdf ==
    /\ send.pc = "retrieved"
    /\ send.output_file = None
    /\ ~(request.output_format \in {"csv", "csv_expert"})
    /\ request.output_format = "netcdf"
    /\ \/ send' = [send EXCEPT !.gets = @ + 1, !.pc = "returned",
                               !.parsed_as = "dataset",
                               !.result = "Dataset"]
       \/ send' = [send EXCEPT !.gets = @ + 1, !.pc = "raised",
                               !.error = "get or parse error"]
    /\ UNCHANGED <<request, ctor, df_irradiation, par_call, response_text,
                   csv_call, heap, idx_call>>

\* Falling off the end: an output file was given, or no branch matched.
ReturnNone ==
    /\ send.pc = "retrieved"
    /\ \/ send.output_file # None
       \/ ~(request.output_format \in {"csv", "csv_expert", "netcdf"})
    /\ send' = [send EXCEPT !.pc = "returned", !.result = None]
    /\ UNCHANGED <<request, ctor, df_irradiation, par_call, response_text,
                   csv_call, heap, idx_call>>

\* The caller takes the result or the exception; the frame is gone.
Finish ==
    /\ send.pc \in {"returned", "raised"}
    /\ send' = IdleFrame
    /\ UNCHANGED <<request, ctor, df_irradiation, par_call, response_text,
                   csv_call, heap, idx_call>>

InitRequest ==
    /\ request = NoRequest
    /\ ctor = NoCall
    /\ send = IdleFrame
    /\ df_irradiation = <<>>
    /\ par_call = NoCall
    /\ response_text = <<>>
    /\ csv_call = NoCall
    /\ heap = <<>>
    /\ idx_call = NoCall

NextRequest ==
    \/ \E ts \in TimeSteps \cup OtherTimeSteps,
          fmt \in OutputFormats \cup OtherOutputFormats,
          kwargs \in BOOLEAN : Construct(ts, fmt, kwargs)
    \/ \E v \in TimeSteps \cup OtherTimeSteps : SetTimeStep(v)
    \/ \E v \in OutputFormats \cup OtherOutputFormats : SetOutputFormat(v)
    \/ \E f \in OutputFiles : SendRequest(f)
    \/ Retrieve
    \/ ReadCsv
    \/ ReadNetcdf
    \/ ReturnNone
    \/ Finish

SpecRequest == InitRequest /\ [][NextRequest]_vars


(***************************************************************************)
(* Claims about CDSRequest                                                 *)
(***************************************************************************)

\* C1: for every (time_step, output_format) pair of the allowed literals,
\* construction succeeds and yields an object exactly when the pair is not
\* csv_expert with a time_step other than 1minute; for those pairs it fails
\* with a validation error and no request object is produced.
C1_ConstructionValidated ==
    (ctor.kind = "Call" /\ ctor.time_step \in TimeSteps
                        /\ ctor.output_format \in OutputFormats) =>
        /\ ctor.outcome \in {"ok", "ValidationError"}
        /\ (ctor.outcome = "ValidationError") <=>
               (ctor.output_format = "csv_expert" /\ ctor.time_step # "1minute")
        /\ (ctor.outcome = "ValidationError") => request = NoRequest
        /\ (ctor.outcome = "ok") => request # NoRequest

C1_Witness ==
    /\ ctor.kind = "Call"
    /\ ctor.output_format = "csv_expert"
    /\ ctor.time_step = "1hour"
    /\ ctor.outcome = "ValidationError"
    /\ request = NoRequest

\* C2: whenever send_request has built its payload, the payload never has
\* format csv_expert together with a time_step other than 1minute, whatever
\* the caller did to the object after constructing it.
C2_PayloadKeepsInvariant ==
    (send.pc # "idle") =>
        (send.params.format = "csv_expert" => send.params.time_step = "1minute")

RECURSIVE GCD(_, _)
GCD(a, b) == IF b = 0 THEN a ELSE GCD(b, a % b)

Rat(n, d) ==
    IF n = 0 THEN [n |-> 0, d |-> 1]
    ELSE LET g == GCD(n, d) IN [n |-> n \div g, d |-> d \div g]

NaN == [n |-> 0, d |-> 0]

RatMul(a, b) == Rat(a.n * b.n, a.d * b.d)

RatDivInt(a, k) == Rat(a.n, a.d * k)

RatAdd(a, b) == Rat(a.n * b.d + b.n * a.d, a.d * b.d)

(***************************************************************************)
(* calculate_PAR and calculate_aggregated_par                              *)
(***************************************************************************)

PAR_FRACTION == [n |-> 1, d |-> 2]

J_TO_UMOL == [n |-> 23, d |-> 5]

\* The literal 1e-6 of the PAR column.
MicroFactor == [n |-> 1, d |-> 1000000]

s_in_30min == 1800

s_in_1h == 3600

s_in_day == 86400

\* Timedelta.days and Timedelta.seconds of a gap of td seconds.
TimedeltaDays(td) == td \div 86400

TimedeltaSeconds(td) == td % 86400

\* index[1] - index[0]
IndexGap(df) == df[2].t - df[1].t

InferredInterval_TotalSeconds(td) == td

\* time_delta_seconds of calculate_PAR.
InferredInterval(td) ==
    IF TimedeltaDays(td) # 0 THEN s_in_1h * 24 * TimedeltaDays(td)
    ELSE TimedeltaSeconds(td)

GlobalIrradiationColumn(ghi) == Rat(ghi, 1)

ShortwaveColumn(global_irradiation, time_delta_seconds) ==
    RatDivInt(RatMul(global_irradiation, Rat(s_in_1h, 1)), time_delta_seconds)

PARColumn_PerInterval(global_irradiation, time_delta_seconds) ==
    RatDivInt(RatMul(RatMul(RatMul(global_irradiation, Rat(s_in_1h, 1)),
                            PAR_FRACTION), MicroFactor), time_delta_seconds)

\* time_delta_seconds is not read: the PAR column is an energy sum.
PARColumn(global_irradiation, time_delta_seconds) ==
    RatMul(RatMul(RatMul(global_irradiation, Rat(s_in_1h, 1)), PAR_FRACTION),
           MicroFactor)

PPFDColumn(shortwave_radiation) ==
    RatMul(RatMul(shortwave_radiation, PAR_FRACTION), J_TO_UMOL)

DerivedRow(row, time_delta_seconds) ==
    LET gi == GlobalIrradiationColumn(row.GHI)
        sw == ShortwaveColumn(gi, time_delta_seconds)
    IN  [t |-> row.t,
         global_irradiation |-> gi,
         shortwave_radiation |-> sw,
         PAR |-> PARColumn(gi, time_delta_seconds),
         PPFD |-> PPFDColumn(sw)]

\* The table calculate_PAR returns for a table of at least two rows.
DerivedTable(df) ==
    LET time_delta_seconds == InferredInterval(IndexGap(df))
    IN  [i \in 1..Len(df) |-> DerivedRow(df[i], time_delta_seconds)]

\* calculate_PAR(df_irradiation), called once on the table.
calculate_PAR ==
    /\ par_call = NoCall
    /\ par_call' =
         IF Len(df_irradiation) < 2
         THEN [kind |-> "calculate_PAR", outcome |-> "IndexError"]
         ELSE [kind |-> "calculate_PAR", outcome |-> "ok",
               time_delta_seconds |-> InferredInterval(IndexGap(df_irradiation)),
               df_par |-> DerivedTable(df_irradiation)]
    /\ UNCHANGED <<request, ctor, send, df_irradiation, response_text,
                   csv_call, heap, idx_call>>

AggregationLevels == {"daily", "hourly", "30min", "weekly"}

\* The branch of the aggregation level: the resample rule, or the exception.
LevelCheck(aggregation_level, time_delta) ==
    IF aggregation_level = "daily"
    THEN IF TimedeltaDays(time_delta) = 0
            /\ ~(TimedeltaSeconds(time_delta) < s_in_day)
         THEN "AssertionError" ELSE "1D"
    ELSE IF aggregation_level = "hourly"
    THEN IF ~(TimedeltaSeconds(time_delta) < s_in_1h)
         THEN "AssertionError" ELSE "1H"
    ELSE IF aggregation_level = "30min"
    THEN IF ~(TimedeltaSeconds(time_delta) < s_in_30min)
         THEN "AssertionError" ELSE "30Min"
    ELSE "NotImplementedError"

\* Seconds of a resample rule.
RuleSeconds(aggregator_param) ==
    CASE aggregator_param = "1D" -> s_in_day
      [] aggregator_param = "1H" -> s_in_1h
      [] aggregator_param = "30Min" -> s_in_30min

aggregators_PARMean ==
    [global_irradiation |-> "sum", shortwave_radiation |-> "mean",
     PAR |-> "mean", PPFD |-> "mean"]

aggregators ==
    [global_irradiation |-> "sum", shortwave_radiation |-> "mean",
     PAR |-> "sum", PPFD |-> "mean"]

RECURSIVE SeqSum(_)
SeqSum(values) ==
    IF values = <<>> THEN Rat(0, 1)
    ELSE RatAdd(values[1], SeqSum(Tail(values)))

\* "sum" and "mean" of pandas over one bucket: 0 and NaN when it is empty.
Aggregate(how, values) ==
    IF how = "sum" THEN SeqSum(values)
    ELSE IF values = <<>> THEN NaN
    ELSE RatDivInt(SeqSum(values), Len(values))

Column(rows, name) == [i \in 1..Len(rows) |-> rows[i][name]]

\* df.resample(rule).agg(aggregators) of a table with an increasing index:
\* one row per bucket from the first row's to the last row's, empty ones too.
Resample(df, aggregator_param) ==
    LET w == RuleSeconds(aggregator_param)
        first == df[1].t \div w
        last == df[Len(df)].t \div w
        Row(b) ==
            LET rows == SelectSeq(df, LAMBDA r : r.t \div w = b)
            IN  [t |-> b * w,
                 global_irradiation |->
                     Aggregate(aggregators.global_irradiation,
                               Column(rows, "global_irradiation")),
                 shortwave_radiation |->
                     Aggregate(aggregators.shortwave_radiation,
                               Column(rows, "shortwave_radiation")),
                 PAR |-> Aggregate(aggregators.PAR, Column(rows, "PAR")),
                 PPFD |-> Aggregate(aggregators.PPFD, Column(rows, "PPFD"))]
    IN  [k \in 1..(last - first + 1) |-> Row(first + k - 1)]

\* calculate_aggregated_par(df_irradiation, aggregation_level), called once
\* on the table.
calculate_aggregated_par(aggregation_level) ==
    /\ par_call = NoCall
    /\ par_call' =
         IF Len(df_irradiation) < 2
         THEN [kind |-> "calculate_aggregated_par",
               aggregation_level |-> aggregation_level,
               outcome |-> "IndexError"]
         ELSE LET check == LevelCheck(aggregation_level,
                                      IndexGap(df_irradiation))
              IN  IF check \in {"AssertionError", "NotImplementedError"}
                  THEN [kind |-> "calculate_aggregated_par",
                        aggregation_level |-> aggregation_level,
                        outcome |-> check]
                  ELSE [kind |-> "calculate_aggregated_par",
                        aggregation_level |-> aggregation_level,
                        outcome |-> "ok",
                        aggregator_param |-> check,
                        df_aggr |-> Resample(DerivedTable(df_irradiation),
                                             check)]
    /\ UNCHANGED <<request, ctor, send, df_irradiation, response_text,
                   csv_call, heap, idx_call>>

\* Input tables: every table of up to MaxRows rows over the gaps and values
\* below, and the tables of one day of hourly rows of 1000 Wh/m2.
MaxRows == 3

Starts == {0, 85500}

Gaps == {900, 1800, 3600, 86400, 176400}

GHIs == {0, 1000}

HoursPerDay == s_in_day \div s_in_1h

DayStarts == {0, 43200}

RECURSIVE TimeAt(_, _, _)
TimeAt(start, gaps, i) ==
    IF i = 1 THEN start ELSE TimeAt(start, gaps, i - 1) + gaps[i - 1]

MakeTable(start, gaps, ghis) ==
    [i \in 1..Len(ghis) |-> [t |-> TimeAt(start, gaps, i), GHI |-> ghis[i]]]

SmallTables ==
    UNION {{MakeTable(start, gaps, ghis) :
               start \in Starts,
               gaps \in [1..(n - 1) -> Gaps],
               ghis \in [1..n -> GHIs]} : n \in 0..MaxRows}

DayTables ==
    {MakeTable(start, [i \in 1..(HoursPerDay - 1) |-> s_in_1h],
               [i \in 1..HoursPerDay |-> 1000]) : start \in DayStarts}

InitPar ==
    /\ request = NoRequest
    /\ ctor = NoCall
    /\ send = IdleFrame
    /\ df_irradiation \in SmallTables \cup DayTables
    /\ par_call = NoCall
    /\ response_text = <<>>
    /\ csv_call = NoCall
    /\ heap = <<>>
    /\ idx_call = NoCall

NextPar ==
    \/ calculate_PAR
    \/ \E level \in AggregationLevels : calculate_aggregated_par(level)

SpecPar == InitPar /\ [][NextPar]_vars


(***************************************************************************)
(* Claims about calculate_PAR and calculate_aggregated_par                 *)
(***************************************************************************)

\* The true gap, in seconds, between the first two index entries.
FirstGap == df_irradiation[2].t - df_irradiation[1].t

\* The bucket length of a known aggregation level.
LevelSeconds(level) ==
    CASE level = "daily" -> 86400
      [] level = "hourly" -> 3600
      [] level = "30min" -> 1800

\* The interval as the specification words it: the whole days of the gap when
\* there are any, the gap itself otherwise.
WholeDaysOrSeconds(d) == IF d >= 86400 THEN d - (d % 86400) ELSE d

RECURSIVE SumGHI(_)
SumGHI(S) ==
    IF S = {} THEN 0
    ELSE LET i == CHOOSE j \in S : TRUE
         IN  df_irradiation[i].GHI + SumGHI(S \ {i})

RowsInBucket(w, b) ==
    {i \in 1..Len(df_irradiation) : df_irradiation[i].t \div w = b}

\* C3: for daily, hourly and 30min, calculate_aggregated_par fails with the
\* assertion error exactly when the gap between the first two index entries
\* is greater than or equal to the bucket length, and proceeds only when it
\* is strictly smaller.
C3_CoarseInputRejected ==
    (/\ par_call.kind = "calculate_aggregated_par"
     /\ par_call.aggregation_level \in {"daily", "hourly", "30min"}
     /\ Len(df_irradiation) >= 2) =>
        /\ (FirstGap >= LevelSeconds(par_call.aggregation_level)) =>
               par_call.outcome = "AssertionError"
        /\ (par_call.outcome = "ok") =>
               FirstGap < LevelSeconds(par_call.aggregation_level)

\* C4: calculate_PAR returns one row per input row on the same index with
\* global irradiation = GHI, shortwave = GHI * 3600 / interval,
\* PAR = GHI * 3600 * 0.5 * 1e-6 and PPFD = shortwave * 0.5 * 4.6; hourly rows
\* of GHI 1000 give shortwave 1000, PAR 1.8 and PPFD 2300.
C4_DerivedColumns ==
    (par_call.kind = "calculate_PAR" /\ par_call.outcome = "ok") =>
        LET out == par_call.df_par
            interval == WholeDaysOrSeconds(FirstGap)
        IN  /\ Len(out) = Len(df_irradiation)
            /\ \A i \in 1..Len(out) :
                 LET ghi == df_irradiation[i].GHI
                     row == out[i]
                 IN  /\ DOMAIN row = {"t", "global_irradiation",
                                      "shortwave_radiation", "PAR", "PPFD"}
                     /\ row.t = df_irradiation[i].t
                     /\ row.global_irradiation.d = 1
                     /\ row.global_irradiation.n = ghi
                     /\ row.shortwave_radiation.d > 0
                     /\ row.shortwave_radiation.n * interval =
                            ghi * 3600 * row.shortwave_radiation.d
                     /\ row.PAR.d > 0
                     /\ row.PAR.n * 1000000 = ghi * 1800 * row.PAR.d
                     /\ row.PPFD.d > 0
                     /\ row.PPFD.n * 10 * row.shortwave_radiation.d =
                            row.shortwave_radiation.n * 23 * row.PPFD.d
                     /\ (FirstGap = 3600 /\ ghi = 1000) =>
                            /\ row.shortwave_radiation = [n |-> 1000, d |-> 1]
                            /\ row.PAR = [n |-> 9, d |-> 5]
                            /\ row.PPFD = [n |-> 2300, d |-> 1]

C4_Witness ==
    /\ par_call.kind = "calculate_PAR"
    /\ par_call.outcome = "ok"
    /\ Len(df_irradiation) = 24
    /\ FirstGap = 3600
    /\ \A i \in 1..24 : /\ df_irradiation[i].GHI = 1000
                        /\ par_call.df_par[i].PAR = [n |-> 9, d |-> 5]
                        /\ par_call.df_par[i].PPFD = [n |-> 2300, d |-> 1]

\* The general part of C5: one output row per bucket from the first row's to
\* the last row's, each holding the sum of global irradiation, the sum of PAR,
\* the mean of shortwave radiation and the mean of PPFD over exactly the
\* derived rows of that bucket (0 and NaN for a bucket without rows).
C5_EachBucket ==
    (par_call.kind = "calculate_aggregated_par" /\ par_call.outcome = "ok") =>
        LET w == LevelSeconds(par_call.aggregation_level)
            out == par_call.df_aggr
            interval == WholeDaysOrSeconds(FirstGap)
            first == df_irradiation[1].t \div w
            last == df_irradiation[Len(df_irradiation)].t \div w
        IN  /\ Len(out) = last - first + 1
            /\ \A k \in 1..Len(out) :
                 LET S == RowsInBucket(w, first + k - 1)
                     n == Cardinality(S)
                     g == SumGHI(S)
                 IN  /\ out[k].t = (first + k - 1) * w
                     /\ out[k].global_irradiation = Rat(g, 1)
                     /\ out[k].PAR = Rat(g * 9, 5000)
                     /\ out[k].shortwave_radiation =
                            IF n = 0 THEN NaN ELSE Rat(g * 3600, interval * n)
                     /\ out[k].PPFD =
                            IF n = 0 THEN NaN
                            ELSE RatMul(Rat(g * 3600, interval * n),
                                        Rat(23, 10))

\* A table of exactly 24 hourly rows of GHI 1000, aggregated daily.
C5_DayOfHourlyRows ==
    /\ par_call.kind = "calculate_aggregated_par"
    /\ par_call.aggregation_level = "daily"
    /\ Len(df_irradiation) = 24
    /\ \A i \in 1..24 : df_irradiation[i].GHI = 1000
    /\ \A i \in 1..23 : df_irradiation[i + 1].t - df_irradiation[i].t = 3600

C5_OneDayRow ==
    /\ par_call.outcome = "ok"
    /\ Len(par_call.df_aggr) = 1
    /\ par_call.df_aggr[1].global_irradiation = [n |-> 24000, d |-> 1]
    /\ par_call.df_aggr[1].PAR = [n |-> 216, d |-> 5]
    /\ par_call.df_aggr[1].shortwave_radiation = [n |-> 1000, d |-> 1]
    /\ par_call.df_aggr[1].PPFD = [n |-> 2300, d |-> 1]

\* C5 as stated: the general part, and any 24 hourly rows of GHI 1000
\* aggregated daily yield the one row 24000, 43.2, 1000, 2300.
C5_AsStated ==
    /\ C5_EachBucket
    /\ C5_DayOfHourlyRows => C5_OneDayRow

\* C5 as amended: the general part, and 24 hourly rows of GHI 1000 that all
\* fall on one calendar day, aggregated daily, yield the one row 24000, 43.2,
\* 1000, 2300.
C5_BucketSumsAndMeans ==
    /\ C5_EachBucket
    /\ (/\ C5_DayOfHourlyRows
        /\ df_irradiation[1].t \div 86400 = df_irradiation[24].t \div 86400)
           => C5_OneDayRow

C5_Witness ==
    /\ C5_DayOfHourlyRows
    /\ df_irradiation[1].t \div 86400 = df_irradiation[24].t \div 86400
    /\ C5_OneDayRow

\* C7: for every table and every aggregation level other than daily, hourly
\* and 30min, calculate_aggregated_par fails with the not-implemented error.
C7_UnknownLevelNotImplemented ==
    (/\ par_call.kind = "calculate_aggregated_par"
     /\ par_call.aggregation_level \notin {"daily", "hourly", "30min"}) =>
        par_call.outcome = "NotImplementedError"

\* C10: the interval calculate_PAR divides by depends only on the gap d
\* between the first two index entries: 86400 times the whole days of d when
\* d has any, else d; it equals d exactly when d is a whole number of days or
\* shorter than a day.
C10_IntervalFromFirstGap ==
    (par_call.kind = "calculate_PAR" /\ par_call.outcome = "ok") =>
        LET d == FirstGap
            interval == par_call.time_delta_seconds
        IN  /\ (d >= 86400) => /\ interval % 86400 = 0
                               /\ interval <= d
                               /\ d - interval < 86400
            /\ (d < 86400) => interval = d
            /\ (interval = d) <=> (d % 86400 = 0 \/ d < 86400)
            /\ \A i \in 1..Len(par_call.df_par) :
                 par_call.df_par[i].shortwave_radiation =
                     Rat(df_irradiation[i].GHI * 3600, interval)

C10_Witness ==
    /\ par_call.kind = "calculate_PAR"
    /\ par_call.outcome = "ok"
    /\ Len(df_irradiation) = 3
    /\ FirstGap = 176400
    /\ df_irradiation[3].t - df_irradiation[2].t = 900
    /\ par_call.time_delta_seconds = 172800


(***************************************************************************)
(* _read_csv_url_to_dataframe                                              *)
(***************************************************************************)

NL == "\n"

\* str.split(sep): the pieces between the occurrences of sep.
RECURSIVE Split(_, _)
Split(text, sep) ==
    IF \A i \in 1..Len(text) : text[i] # sep THEN <<text>>
    ELSE LET k == CHOOSE i \in 1..Len(text) :
                      text[i] = sep /\ \A j \in 1..(i - 1) : text[j] # sep
         IN  <<SubSeq(text, 1, k - 1)>>
                 \o Split(SubSeq(text, k + 1, Len(text)), sep)

AfterFirstHash(text) ==
    LET pieces == Split(text, "#")
    IN  IF Len(pieces) > 1 THEN pieces[2] ELSE pieces[1]

\* response.text.split("#")[-1]
AfterLastHash(text) ==
    LET pieces == Split(text, "#") IN pieces[Len(pieces)]

RECURSIVE lstrip(_)
lstrip(s) == IF s # <<>> /\ s[1] = " " THEN lstrip(Tail(s)) ELSE s

RECURSIVE rstrip(_)
rstrip(s) ==
    IF s # <<>> /\ s[Len(s)] = " " THEN rstrip(SubSeq(s, 1, Len(s) - 1))
    ELSE s

replace(s, old, new) == [i \in 1..Len(s) |-> IF s[i] = old THEN new ELSE s[i]]

\* df.columns.str.lstrip().str.rstrip().str.replace(" ", "_") of one name.
NormalizeHeader(name) == replace(rstrip(lstrip(name)), " ", "_")

\* The lines pd.read_csv reads: blank lines are skipped.
RecordLines(data) == SelectSeq(Split(data, NL), LAMBDA line : line # <<>>)

\* _read_csv_url_to_dataframe(url), with response_text the body of the GET:
\* the first record is the header, split at the delimiter ";".
read_csv_url_to_dataframe ==
    /\ csv_call = NoCall
    /\ LET data == AfterLastHash(response_text)
           records == RecordLines(data)
       IN  csv_call' =
             IF records = <<>>
             THEN [kind |-> "Call", outcome |-> "EmptyDataError",
                   data |-> data]
             ELSE LET names == Split(records[1], ";")
                  IN  [kind |-> "Call", outcome |-> "ok", data |-> data,
                       header |-> records[1],
                       columns |-> [j \in 1..Len(names) |->
                                        NormalizeHeader(names[j])],
                       rows |-> Len(records) - 1]
    /\ UNCHANGED <<request, ctor, send, df_irradiation, par_call,
                   response_text, heap, idx_call>>

\* Response bodies: up to MaxLines lines, each one of ResponseLines.
MaxLines == 3

ResponseLines ==
    { <<"#", " ", "c">>,
      <<"#">>,
      <<"#", " ", "C", "o", "l", " ", "A", " ", ";", "b">>,
      <<" ", "C", "o", "l", " ", "A", " ", ";", "b">>,
      <<"1", ";", "2">>,
      <<"1", ";", "#", "2">>,
      <<>> }

RECURSIVE JoinLines(_)
JoinLines(lines) ==
    IF Len(lines) = 0 THEN <<>>
    ELSE IF Len(lines) = 1 THEN lines[1]
    ELSE lines[1] \o <<NL>> \o JoinLines(Tail(lines))

ResponseTexts ==
    UNION {{JoinLines(lines) : lines \in [1..n -> ResponseLines]} :
               n \in 1..MaxLines}

InitCsv ==
    /\ request = NoRequest
    /\ ctor = NoCall
    /\ send = IdleFrame
    /\ df_irradiation = <<>>
    /\ par_call = NoCall
    /\ response_text \in ResponseTexts
    /\ csv_call = NoCall
    /\ heap = <<>>
    /\ idx_call = NoCall

NextCsv == read_csv_url_to_dataframe

SpecCsv == InitCsv /\ [][NextCsv]_vars

(***************************************************************************)
(* Claims about _read_csv_url_to_dataframe                                 *)
(***************************************************************************)

HasHash == \E i \in 1..Len(response_text) : response_text[i] = "#"

\* The position of the last "#" of the response text.
LastHash ==
    CHOOSE k \in 1..Len(response_text) :
        /\ response_text[k] = "#"
        /\ \A j \in (k + 1)..Len(response_text) : response_text[j] # "#"

\* The lines of the response text, and the last of them that starts with "#".
TextLines == Split(response_text, NL)

IsCommentLine(line) == line # <<>> /\ line[1] = "#"

LastCommentLine ==
    CHOOSE k \in 1..Len(TextLines) :
        /\ IsCommentLine(TextLines[k])
        /\ \A j \in (k + 1)..Len(TextLines) : ~IsCommentLine(TextLines[j])

\* name, trimmed of its leading and trailing spaces and with every space left
\* replaced by an underscore, is result.
IsNormalized(name, result) ==
    \E a, b \in 0..Len(name) :
        /\ a + b <= Len(name)
        /\ \A i \in 1..a : name[i] = " "
        /\ \A i \in (Len(name) - b + 1)..Len(name) : name[i] = " "
        /\ (a + b < Len(name)) =>
               (name[a + 1] # " " /\ name[Len(name) - b] # " ")
        /\ Len(result) = Len(name) - a - b
        /\ \A i \in 1..Len(result) :
               result[i] = IF name[a + i] = " " THEN "_" ELSE name[a + i]

\* The headers are the fields of the header line, each normalised;
\* " Col A " becomes "Col_A".
C6_HeadersNormalized ==
    (csv_call.kind = "Call" /\ csv_call.outcome = "ok") =>
        LET names == Split(csv_call.header, ";")
        IN  /\ Len(csv_call.columns) = Len(names)
            /\ \A j \in 1..Len(names) :
                 /\ IsNormalized(names[j], csv_call.columns[j])
                 /\ (names[j] = <<" ", "C", "o", "l", " ", "A", " ">>) =>
                        csv_call.columns[j] = <<"C", "o", "l", "_", "A">>

\* Every "#" of the response text is the first character of a line.
HashOnlyAtLineStart ==
    \A k \in 1..Len(TextLines) :
        \A i \in 2..Len(TextLines[k]) : TextLines[k][i] # "#"

\* C6 as stated: when the text starts with a block of "#" lines, the whole
\* last "#"-prefixed line is discarded with what precedes it, so the header is
\* the first non-blank line that follows that line, and the headers are
\* normalised.
C6_AsStated ==
    /\ (/\ csv_call.kind = "Call"
        /\ IsCommentLine(TextLines[1])
        /\ HashOnlyAtLineStart
        /\ \E k \in (LastCommentLine + 1)..Len(TextLines) :
               TextLines[k] # <<>>) =>
           LET k == CHOOSE i \in (LastCommentLine + 1)..Len(TextLines) :
                        /\ TextLines[i] # <<>>
                        /\ \A j \in (LastCommentLine + 1)..(i - 1) :
                               TextLines[j] = <<>>
           IN  csv_call.outcome = "ok" /\ csv_call.header = TextLines[k]
    /\ C6_HeadersNormalized

\* C6 as amended: everything up to and including the last "#" character is
\* discarded and the rest of that line is kept; the parsed text is what
\* follows that character, its first non-blank line is the header (the rest
\* of the last "#" line when there is any), and the headers are normalised.
C6_AfterLastHashCharacter ==
    /\ (csv_call.kind = "Call") =>
           /\ \A i \in 1..Len(csv_call.data) : csv_call.data[i] # "#"
           /\ IF HasHash
              THEN csv_call.data = SubSeq(response_text, LastHash + 1,
                                          Len(response_text))
              ELSE csv_call.data = response_text
           /\ (csv_call.outcome = "EmptyDataError") <=>
                  (\A i \in 1..Len(csv_call.data) : csv_call.data[i] = NL)
    /\ (csv_call.kind = "Call" /\ csv_call.outcome = "ok") =>
           LET lines == Split(csv_call.data, NL)
           IN  \E k \in 1..Len(lines) :
                   /\ lines[k] = csv_call.header
                   /\ lines[k] # <<>>
                   /\ \A j \in 1..(k - 1) : lines[j] = <<>>
    /\ C6_HeadersNormalized

C6_Witness ==
    /\ csv_call.kind = "Call"
    /\ csv_call.outcome = "ok"
    /\ Len(TextLines) = 3
    /\ TextLines[1] = <<"#", " ", "c">>
    /\ TextLines[2] = <<"#", " ", "C", "o", "l", " ", "A", " ", ";", "b">>
    /\ TextLines[3] = <<"1", ";", "2">>
    /\ csv_call.header = <<" ", "C", "o", "l", " ", "A", " ", ";", "b">>
    /\ csv_call.columns = << <<"C", "o", "l", "_", "A">>, <<"b">> >>


(***************************************************************************)
(* observation_period_to_index                                             *)
(*                                                                         *)
(* A table is [columns, rows, index, index_name]: the data columns in      *)
(* order, one record per row, the index values and the index name.  A      *)
(* timestamp string is a two-digit hour, "HH"; its timestamp is in seconds.*)
(***************************************************************************)

CAMS_TIME_COL == "Observation_period"

DigitChars == <<"0", "1", "2", "3", "4", "5", "6", "7", "8", "9">>

DigitValue(c) == (CHOOSE k \in 1..10 : DigitChars[k] = c) - 1

\* pd.to_datetime of one timestamp string.
to_datetime(text) ==
    (DigitValue(text[1]) * 10 + DigitValue(text[2])) * s_in_1h

EndOfPeriod(period) == Split(period, "/")[2]

\* x[CAMS_TIME_COL].split("/")[0]
StartOfPeriod(period) == Split(period, "/")[1]

RangeOf(seq) == {seq[i] : i \in 1..Len(seq)}

\* df[CAMS_TIME_COL] = ...; df.set_index(CAMS_TIME_COL, drop=True,
\* inplace=True); df.index.name = new_index_name when that is truthy.
NormalizedTable(df, new_index_name) ==
    [columns |-> SelectSeq(df.columns, LAMBDA c : c # CAMS_TIME_COL),
     rows |-> [i \in 1..Len(df.rows) |->
                  [c \in (DOMAIN df.rows[i]) \ {CAMS_TIME_COL} |->
                      df.rows[i][c]]],
     index |-> [i \in 1..Len(df.rows) |->
                   to_datetime(StartOfPeriod(df.rows[i][CAMS_TIME_COL]))],
     index_name |-> IF new_index_name \notin {None, ""} THEN new_index_name
                    ELSE CAMS_TIME_COL]

MaxCalls == 2

IndexNames == {None, "", "time"}

\* observation_period_to_index(df, new_index_name) on the object df = heap[1]:
\* the lambda raises KeyError when the column is gone, before anything is
\* assigned; otherwise the object is changed in place and returned.
observation_period_to_index(new_index_name) ==
    /\ idx_call.kind = "Calls"
    /\ idx_call.calls < MaxCalls
    /\ IF CAMS_TIME_COL \in RangeOf(heap[1].columns)
       THEN /\ heap' = [heap EXCEPT ![1] =
                            NormalizedTable(heap[1], new_index_name)]
            /\ idx_call' = [idx_call EXCEPT !.calls = @ + 1,
                                !.outcome = "ok", !.ret = 1,
                                !.new_index_name = new_index_name]
       ELSE /\ heap' = heap
            /\ idx_call' = [idx_call EXCEPT !.calls = @ + 1,
                                !.outcome = "KeyError", !.ret = None,
                                !.new_index_name = new_index_name]
    /\ UNCHANGED <<request, ctor, send, df_irradiation, par_call,
                   response_text, csv_call>>

\* Input tables: up to MaxIndexRows rows, a period string and a GHI each,
\* under the default RangeIndex.
MaxIndexRows == 2

PeriodStarts == {0, 9, 23}

TwoDigits(h) == <<DigitChars[(h \div 10) + 1], DigitChars[(h % 10) + 1]>>

\* "<start>/<end>" of the hour that starts at h.
FormatPeriod(h) == TwoDigits(h) \o <<"/">> \o TwoDigits(h + 1)

RawTables ==
    UNION {{[columns |-> <<CAMS_TIME_COL, "GHI">>,
             rows |-> [i \in 1..n |->
                          [Observation_period |-> FormatPeriod(starts[i]),
                           GHI |-> ghis[i]]],
             index |-> [i \in 1..n |-> i - 1],
             index_name |-> None] :
               starts \in [1..n -> PeriodStarts],
               ghis \in [1..n -> GHIs]} : n \in 1..MaxIndexRows}

InitIndex ==
    /\ request = NoRequest
    /\ ctor = NoCall
    /\ send = IdleFrame
    /\ df_irradiation = <<>>
    /\ par_call = NoCall
    /\ response_text = <<>>
    /\ csv_call = NoCall
    /\ \E df \in RawTables :
          /\ heap = <<df>>
          /\ idx_call = [kind |-> "Calls", calls |-> 0, original |-> df,
                         outcome |-> None, ret |-> None,
                         new_index_name |-> None]

NextIndex == \E name \in IndexNames : observation_period_to_index(name)

SpecIndex == InitIndex /\ [][NextIndex]_vars

(***************************************************************************)
(* Claims about observation_period_to_index                                *)
(***************************************************************************)

\* C9: one application changes the caller's table in place and returns that
\* same table; row i's index entry is the timestamp of the <start> part of
\* row i's period string, the period column is no data column any more, the
\* other columns and the row order are unchanged, and the index is named
\* new_index_name when one is given; a second application fails because the
\* raw column is gone.
C9_IndexFromPeriodStart ==
    /\ (idx_call.kind = "Calls" /\ idx_call.calls >= 1) =>
         LET df == heap[1]
             original == idx_call.original
         IN  /\ Len(heap) = 1
             /\ df # original
             /\ CAMS_TIME_COL \notin RangeOf(df.columns)
             /\ df.columns = <<"GHI">>
             /\ Len(df.rows) = Len(original.rows)
             /\ Len(df.index) = Len(original.rows)
             /\ \A i \in 1..Len(df.rows) :
                  /\ DOMAIN df.rows[i] = {"GHI"}
                  /\ df.rows[i].GHI = original.rows[i].GHI
                  /\ \E h \in PeriodStarts :
                       /\ original.rows[i].Observation_period =
                              FormatPeriod(h)
                       /\ df.index[i] = h * 3600
                  /\ (original.rows[i].Observation_period =
                          <<"0", "0", "/", "0", "1">>) => df.index[i] = 0
    /\ (idx_call.kind = "Calls" /\ idx_call.calls = 1) =>
         /\ idx_call.outcome = "ok"
         /\ idx_call.ret = 1
         /\ (idx_call.new_index_name = "time") => heap[1].index_name = "time"
         /\ (idx_call.new_index_name = None) =>
                heap[1].index_name = "Observation_period"
    /\ (idx_call.kind = "Calls" /\ idx_call.calls >= 2) =>
         /\ idx_call.outcome = "KeyError"
         /\ idx_call.ret = None

C9_Witness ==
    /\ idx_call.kind = "Calls"
    /\ idx_call.calls = 1
    /\ idx_call.outcome = "ok"
    /\ idx_call.ret = 1
    /\ idx_call.new_index_name = "time"
    /\ Len(idx_call.original.rows) = 2
    /\ idx_call.original.rows[1].Observation_period =
           <<"0", "9", "/", "1", "0">>
    /\ idx_call.original.rows[2].Observation_period =
           <<"0", "0", "/", "0", "1">>
    /\ heap[1].index = <<32400, 0>>
    /\ heap[1].index_name = "time"

=============================================================================
